---------------------------- MODULE Spec2Model ----------------------------
(***************************************************************************)
(* State-machine model of the UniFi Energy Helper integration:             *)
(*   custom_components/unifi_energy_helper/sensor.py  (per-port sensor,    *)
(*       discovery at setup and at run time)                               *)
(*   custom_components/unifi_helper/button.py         (reset button)       *)
(*   custom_components/unifi_helper/const.py          (unit conversions)   *)
(*                                                                         *)
(* Numbers.  Power readings are whole watts, the clock counts ticks of     *)
(* SecondsPerTick seconds, and an energy total is held as an exact number  *)
(* of watt-seconds: 1 kWh = SecondsPerHour * WattsPerKilowatt W.s, so the  *)
(* code's                                                                  *)
(*     power * seconds * SECONDS_TO_HOURS * WATTS_TO_KILOWATTS   [kWh]     *)
(* is  power * seconds  [W.s].  The arithmetic is exact: the rounding      *)
(* error of IEEE doubles is not modelled.  native_value (round(x, 3)) is   *)
(* a whole number of thousandths of a kWh.                                 *)
(***************************************************************************)
EXTENDS Integers, Sequences, FiniteSets, TLC

(***************************************************************************)
(* Bounds of the model.                                                    *)
(***************************************************************************)
MaxTime == 2
MaxSkew == 1
MaxSetups == 2
MaxSensors == 2
MaxButtons == 2
MaxRestarts == 1

(***************************************************************************)
(* Program constants.                                                      *)
(***************************************************************************)
SecondsPerHour == 3600
WattsPerKilowatt == 1000
NativeDecimals == 3

WsPerKwh == SecondsPerHour * WattsPerKilowatt
SecondsPerTick == SecondsPerHour \div 2

(***************************************************************************)
(* Optional values: None is the empty tuple, a present value v is <<v>>.   *)
(***************************************************************************)
None == << >>
Some(v) == << v >>
Val(o) == o[1]

(***************************************************************************)
(* Python strings that the code searches are tuples of characters.         *)
(***************************************************************************)
LowerChar(c) ==
    CASE c = "O" -> "o"
      [] c = "P" -> "p"
      [] c = "U" -> "u"
      [] c = "D" -> "d"
      [] c = "E" -> "e"
      [] c = "T" -> "t"
      [] c = "L" -> "l"
      [] c = "R" -> "r"
      [] c = "S" -> "s"
      [] c = "C" -> "c"
      [] OTHER -> c

Lower(s) == [i \in 1..Len(s) |-> LowerChar(s[i])]

Contains(s, sub) ==
    \E i \in 1..(Len(s) + 1 - Len(sub)) : SubSeq(s, i, i + Len(sub) - 1) = sub

StartsWith(s, p) == Len(s) >= Len(p) /\ SubSeq(s, 1, Len(p)) = p

SensorDot == <<"s", "e", "n", "s", "o", "r", ".">>
WordPort == <<"p", "o", "r", "t">>
WordPoe == <<"p", "o", "e">>
WordOutlet == <<"o", "u", "t", "l", "e", "t">>
WordPdu == <<"p", "d", "u">>

UNIFI_DOMAIN == "unifi"

(***************************************************************************)
(* The registry entries the host can hold.  A source is named by a short   *)
(* handle; the entry's fixed fields are below, its presence and its        *)
(* disabled_by flag are state (variable registry).                         *)
(*   p1  sensor.sw_port_1_poe_power    a PoE port, matches on entity_id    *)
(*   o2  sensor.rack_socket_2_power    a PDU outlet, matches on unique_id  *)
(*                                     only, and only after lower()        *)
(*   x3  sensor.udm_cpu_power          a power sensor of the same          *)
(*                                     integration that is no port/outlet  *)
(***************************************************************************)
Sources == {"p1", "o2", "x3"}
SourceOrder == <<"p1", "o2", "x3">>

Catalog ==
    [s \in Sources |->
       CASE s = "p1" ->
              [platform |-> "unifi", device_id |-> "dev1",
               original_device_class |-> "power", unit_of_measurement |-> "W",
               entity_id |-> <<"s", "e", "n", "s", "o", "r", ".", "s", "w", "_",
                               "p", "o", "r", "t", "_", "1", "_", "p", "o", "e",
                               "_", "p", "o", "w", "e", "r">>,
               unique_id |-> <<"p", "o", "e", "_", "p", "o", "w", "e", "r", "-",
                               "a", "a", "_", "1">>]
         [] s = "o2" ->
              [platform |-> "unifi", device_id |-> "dev2",
               original_device_class |-> "power", unit_of_measurement |-> "W",
               entity_id |-> <<"s", "e", "n", "s", "o", "r", ".", "r", "a", "c",
                               "k", "_", "s", "o", "c", "k", "e", "t", "_", "2",
                               "_", "p", "o", "w", "e", "r">>,
               unique_id |-> <<"O", "u", "t", "l", "e", "t", "-", "b", "b", "_",
                               "2">>]
         [] OTHER ->
              [platform |-> "unifi", device_id |-> "dev1",
               original_device_class |-> "power", unit_of_measurement |-> "W",
               entity_id |-> <<"s", "e", "n", "s", "o", "r", ".", "u", "d", "m",
                               "_", "c", "p", "u", "_", "p", "o", "w", "e", "r">>,
               unique_id |-> <<"c", "p", "u", "_", "p", "o", "w", "e", "r", "-",
                               "c", "c">>]]

(***************************************************************************)
(* sensor.py 28-53.  entry is a registry entry: the catalogue's fields,    *)
(* the source's handle and the current disabled_by.                        *)
(***************************************************************************)
\* sensor.py 41-53: the naming heuristic on the two identifiers.
NameMatches(entity_id, unique_id) ==
    LET entity_lower == Lower(entity_id)
        unique_lower == IF unique_id # << >> THEN Lower(unique_id) ELSE << >>
    IN  \/ Contains(entity_lower, WordPort)
        \/ Contains(entity_lower, WordPoe)
        \/ Contains(entity_lower, WordOutlet)
        \/ Contains(entity_lower, WordPdu)
        \/ Contains(unique_lower, WordPort)
        \/ Contains(unique_lower, WordPoe)
        \/ Contains(unique_lower, WordOutlet)
        \/ Contains(unique_lower, WordPdu)

\* The heuristic's answer for each catalogue entry, computed once.
NameMatchOf ==
    [s \in Sources |-> NameMatches(Catalog[s].entity_id, Catalog[s].unique_id)]

_is_unifi_power_entity(entry) ==
    IF ~( /\ entry.platform = UNIFI_DOMAIN
          /\ entry.disabled_by = None
          /\ entry.device_id # ""
          /\ entry.original_device_class = "power"
          /\ entry.unit_of_measurement = "W"
          /\ StartsWith(entry.entity_id, SensorDot) )
    THEN FALSE
    ELSE NameMatchOf[entry.handle]

(***************************************************************************)
(* State strings of a power source and Python's float() on them.           *)
(* float() accepts exponents and a sign; "abc" raises ValueError.          *)
(***************************************************************************)
NumericStrings == {"10", "2e1", "-5", "1"}

PyFloat(str) ==
    CASE str = "10" -> 10
      [] str = "1" -> 1
      [] str = "2e1" -> 20
      [] str = "-5" -> 0 - 5

FloatRaises(str) == str \notin NumericStrings


(***************************************************************************)
(* Arithmetic helpers.  Python's round() rounds an exact tie to the even   *)
(* neighbour; \div and % are floor division and its remainder.             *)
(***************************************************************************)
RoundHalfEven(n, d) ==
    LET q == n \div d
        r == n % d
    IN  IF 2 * r < d THEN q
        ELSE IF 2 * r > d THEN q + 1
        ELSE IF q % 2 = 0 THEN q ELSE q + 1

Thousandths == 10 ^ NativeDecimals

\* Seconds between two clock readings: (a - b).total_seconds().
TotalSeconds(a, b) == (a - b) * SecondsPerTick

(***************************************************************************)
(* str.replace, str.count, str.title and str.split(".")[1] on tuples of    *)
(* characters.                                                             *)
(***************************************************************************)
RECURSIVE Replace(_, _, _)
Replace(s, old, new) ==
    IF Len(s) < Len(old) THEN s
    ELSE IF SubSeq(s, 1, Len(old)) = old
         THEN new \o Replace(SubSeq(s, Len(old) + 1, Len(s)), old, new)
         ELSE <<s[1]>> \o Replace(Tail(s), old, new)

RECURSIVE Count(_, _)
Count(s, sub) ==
    IF Len(s) < Len(sub) THEN 0
    ELSE IF SubSeq(s, 1, Len(sub)) = sub
         THEN 1 + Count(SubSeq(s, Len(sub) + 1, Len(s)), sub)
         ELSE Count(Tail(s), sub)

UpperChar(c) ==
    CASE c = "o" -> "O"
      [] c = "p" -> "P"
      [] c = "u" -> "U"
      [] c = "d" -> "D"
      [] c = "e" -> "E"
      [] c = "t" -> "T"
      [] c = "l" -> "L"
      [] c = "r" -> "R"
      [] c = "s" -> "S"
      [] c = "c" -> "C"
      [] OTHER -> c

Uncased == {" ", "_", ".", "-", "0", "1", "2", "3", "4", "5", "6", "7", "8", "9"}

Title(s) ==
    [i \in 1..Len(s) |->
       IF i = 1 \/ s[i - 1] \in Uncased THEN UpperChar(s[i])
       ELSE LowerChar(s[i])]

\* entity_id.split(".")[1]
ObjectId(entity_id) ==
    LET dot == CHOOSE i \in 1..Len(entity_id) :
                   /\ entity_id[i] = "."
                   /\ \A j \in 1..(i - 1) : entity_id[j] # "."
        rest == SubSeq(entity_id, dot + 1, Len(entity_id))
    IN  IF \E i \in 1..Len(rest) : rest[i] = "."
        THEN SubSeq(rest, 1,
                    (CHOOSE i \in 1..Len(rest) :
                        /\ rest[i] = "."
                        /\ \A j \in 1..(i - 1) : rest[j] # ".") - 1)
        ELSE rest

WordPower ==
    <<"P", "o", "w", "e", "r">>
WordPowerLower ==
    <<"p", "o", "w", "e", "r">>
WordEnergy ==
    <<"E", "n", "e", "r", "g", "y">>
WordOutletTitle ==
    <<"O", "u", "t", "l", "e", "t">>
SpacePower ==
    <<" ", "P", "o", "w", "e", "r">>
SpaceEnergy ==
    <<" ", "E", "n", "e", "r", "g", "y">>
SpaceOutletEnergy ==
    <<" ", "O", "u", "t", "l", "e", "t", " ", "E", "n", "e", "r",
      "g", "y">>

(***************************************************************************)
(* The names a registry entry can carry: original_name is the name the     *)
(* upstream integration gave, name the one the user set; each is None or   *)
(* Some(string), and the string may be empty.                              *)
(***************************************************************************)
NamePoEPower ==
    <<"P", "o", "E", " ", "P", "o", "w", "e", "r">>
NamePoELower ==
    <<"P", "o", "E", " ", "p", "o", "w", "e", "r">>
NameLamp ==
    <<"L", "a", "m", "p">>
NameOutletTwice ==
    <<"O", "u", "t", "l", "e", "t", " ", "5", " ", "O", "u", "t",
      "l", "e", "t", " ", "P", "o", "w", "e", "r">>
NameEmpty == << >>

NameValues ==
    {None, Some(NameEmpty), Some(NamePoEPower), Some(NamePoELower),
     Some(NameLamp), Some(NameOutletTwice)}

Truthy(o) == o # None /\ Val(o) # << >>

(***************************************************************************)
(* sensor.py 242-262 and 284-302: the name of the energy sensor, from the  *)
(* entry of its power entity.                                              *)
(***************************************************************************)
PowerName(entity_id, poe_entry) ==
    LET picked == IF Truthy(poe_entry.original_name)
                  THEN poe_entry.original_name
                  ELSE poe_entry.name
    IN  IF Truthy(picked) THEN Val(picked)
        ELSE Title(Replace(ObjectId(entity_id), <<"_">>, <<" ">>))

EnergyNameFrom(power_name) ==
    IF Contains(power_name, WordPower)
    THEN LET energy_name == Replace(power_name, SpacePower, SpaceEnergy)
         IN  IF /\ Contains(energy_name, WordOutletTitle)
                /\ Count(energy_name, WordOutletTitle) > 1
             THEN Replace(energy_name, SpaceOutletEnergy, SpaceEnergy)
             ELSE energy_name
    ELSE IF Contains(Lower(power_name), WordPowerLower)
         THEN Replace(Replace(power_name, WordPowerLower, WordEnergy),
                      WordPower, WordEnergy)
         ELSE power_name \o SpaceEnergy

\* The derivation, tabulated over the entries the model uses.
EnergyNameOf ==
    [s \in Sources |->
       [o \in NameValues |->
          [n \in NameValues |->
             EnergyNameFrom(PowerName(Catalog[s].entity_id,
                                      [original_name |-> o, name |-> n]))]]]

EnergyName(s, poe_entry) == EnergyNameOf[s][poe_entry.original_name][poe_entry.name]

(***************************************************************************)
(* UniFiEnergyAccumulationSensor: one record per object.                   *)
(*   pc  "created"   constructed and handed to async_add_entities          *)
(*       "tracking"  async_internal_added_to_hass has run                  *)
(*       "added"     async_added_to_hass has run                           *)
(*       "removing"  async_internal_will_remove_from_hass has run          *)
(*       "removed"   async_will_remove_from_hass has run                   *)
(*   unsub_*  TRUE while the object holds that unsubscribe function        *)
(*   unsub_calls  how often each unsubscribe function has been called      *)
(***************************************************************************)
\* sensor.py 224-280
NewSensor(poe_entity_id, poe_entity_entry) ==
    [poe |-> poe_entity_id,
     name |-> EnergyName(poe_entity_id, poe_entity_entry),
     pc |-> "created",
     total_energy_kwh |-> 0,
     last_update_time |-> None,
     last_power_watts |-> None,
     unsub_update |-> FALSE,
     unsub_reset |-> FALSE,
     unsub_registry |-> FALSE,
     unsub_calls |-> [update |-> 0, reset |-> 0, registry |-> 0]]

\* sensor.py 319-322: round(self._total_energy_kwh, 3), in thousandths of a kWh
native_value(self) ==
    RoundHalfEven(self.total_energy_kwh * Thousandths, WsPerKwh)

\* float(last_sensor_data.native_value): thousandths of a kWh to W.s
FloatOfStored(v) == v * (WsPerKwh \div Thousandths)

(***************************************************************************)
(* sensor.py 480-529.  new_power_watts is None or Some(watts).             *)
(***************************************************************************)
CalcIncrement_RightEndpoint(self, current_time, new_power_watts) ==
    LET has_prev == self.last_update_time # None /\ self.last_power_watts # None
        time_delta_seconds ==
            IF has_prev THEN TotalSeconds(current_time, Val(self.last_update_time))
            ELSE 0
        rate == IF new_power_watts # None THEN Val(new_power_watts)
                ELSE Val(self.last_power_watts)
        total == IF has_prev /\ time_delta_seconds > 0
                 THEN self.total_energy_kwh + rate * time_delta_seconds
                 ELSE self.total_energy_kwh
    IN  [self EXCEPT
           !.total_energy_kwh = total,
           !.last_power_watts =
               IF new_power_watts # None THEN new_power_watts ELSE @,
           !.last_update_time =
               IF new_power_watts # None THEN Some(current_time) ELSE @]

CalcIncrement_KeepBaseline(self, current_time, new_power_watts) ==
    LET has_prev == self.last_update_time # None /\ self.last_power_watts # None
        time_delta_seconds ==
            IF has_prev THEN TotalSeconds(current_time, Val(self.last_update_time))
            ELSE 0
        total == IF has_prev /\ time_delta_seconds > 0
                 THEN self.total_energy_kwh
                      + Val(self.last_power_watts) * time_delta_seconds
                 ELSE self.total_energy_kwh
    IN  [self EXCEPT
           !.total_energy_kwh = total,
           !.last_power_watts =
               IF new_power_watts # None THEN new_power_watts ELSE @,
           !.last_update_time =
               IF new_power_watts # None /\ ~has_prev
               THEN Some(current_time) ELSE @]

CalcIncrement_SkipNotLater(self, current_time, new_power_watts) ==
    LET has_prev == self.last_update_time # None /\ self.last_power_watts # None
        time_delta_seconds ==
            IF has_prev THEN TotalSeconds(current_time, Val(self.last_update_time))
            ELSE 0
    IN  IF has_prev /\ time_delta_seconds <= 0 THEN self
        ELSE [self EXCEPT
                !.total_energy_kwh =
                    IF has_prev
                    THEN @ + Val(self.last_power_watts) * time_delta_seconds
                    ELSE @,
                !.last_power_watts =
                    IF new_power_watts # None THEN new_power_watts ELSE @,
                !.last_update_time =
                    IF new_power_watts # None THEN Some(current_time) ELSE @]

_calculate_energy_increment(self, current_time, new_power_watts) ==
    LET has_prev == self.last_update_time # None /\ self.last_power_watts # None
        time_delta_seconds ==
            IF has_prev THEN TotalSeconds(current_time, Val(self.last_update_time))
            ELSE 0
        total == IF has_prev /\ time_delta_seconds > 0
                 THEN self.total_energy_kwh
                      + Val(self.last_power_watts) * time_delta_seconds
                 ELSE self.total_energy_kwh
    IN  [self EXCEPT
           !.total_energy_kwh = total,
           !.last_power_watts =
               IF new_power_watts # None THEN new_power_watts ELSE @,
           !.last_update_time =
               IF new_power_watts # None THEN Some(current_time) ELSE @]

(***************************************************************************)
(* sensor.py 551-572.  new_state is None (no state object) or Some(string) *)
(* Returns the object after the handler and whether it wrote its state.    *)
(***************************************************************************)
PowerChanged_TouchOnInvalid(self, new_state, current_time) ==
    IF new_state = None \/ Val(new_state) \in {"unknown", "unavailable"}
    THEN [self |-> [self EXCEPT !.last_update_time = Some(current_time)],
          wrote |-> FALSE]
    ELSE IF FloatRaises(Val(new_state))
    THEN [self |-> self, wrote |-> FALSE]
    ELSE [self |-> _calculate_energy_increment(
                       self, current_time, Some(PyFloat(Val(new_state)))),
          wrote |-> TRUE]

_async_power_changed(self, new_state, current_time) ==
    IF new_state = None \/ Val(new_state) \in {"unknown", "unavailable"}
    THEN [self |-> self, wrote |-> FALSE]
    ELSE IF FloatRaises(Val(new_state))
    THEN [self |-> self, wrote |-> FALSE]
    ELSE [self |-> _calculate_energy_increment(
                       self, current_time, Some(PyFloat(Val(new_state)))),
          wrote |-> TRUE]

(***************************************************************************)
(* sensor.py 466-477                                                       *)
(***************************************************************************)
ResetEnergy_ClearPower(self, current_time) ==
    [self EXCEPT !.total_energy_kwh = 0,
                 !.last_update_time = Some(current_time),
                 !.last_power_watts = None]

ResetEnergy_KeepBaseline(self, current_time) ==
    [self EXCEPT !.total_energy_kwh = 0]

_reset_energy(self, current_time) ==
    [self EXCEPT !.total_energy_kwh = 0,
                 !.last_update_time = Some(current_time)]

(***************************************************************************)
(* sensor.py 360-376: the restoring part of async_added_to_hass.           *)
(* last_sensor_data is None or Some(stored native value).                  *)
(***************************************************************************)
RestoreTotal_Skip(self, last_sensor_data) == self

RestoreTotal(self, last_sensor_data) ==
    IF last_sensor_data # None
    THEN [self EXCEPT !.total_energy_kwh = FloatOfStored(Val(last_sensor_data))]
    ELSE self

(***************************************************************************)
(* sensor.py 531-549.  state is None or Some(string).                      *)
(***************************************************************************)
Initialize_SeedZeroOnInvalid(self, state, current_time) ==
    IF state # None /\ Val(state) \notin {"unknown", "unavailable"}
       /\ ~FloatRaises(Val(state))
    THEN [self EXCEPT !.last_power_watts = Some(PyFloat(Val(state))),
                      !.last_update_time = Some(current_time)]
    ELSE [self EXCEPT !.last_power_watts = Some(0),
                      !.last_update_time = Some(current_time)]

_async_initialize_from_current_state(self, state, current_time) ==
    IF state # None /\ Val(state) \notin {"unknown", "unavailable"}
       /\ ~FloatRaises(Val(state))
    THEN [self EXCEPT !.last_power_watts = Some(PyFloat(Val(state))),
                      !.last_update_time = Some(current_time)]
    ELSE self

(***************************************************************************)
(* sensor.py 454-464                                                       *)
(***************************************************************************)
Cleanup_KeepHandles(self) ==
    [self EXCEPT
       !.unsub_calls =
           [update |-> @.update + (IF self.unsub_update THEN 1 ELSE 0),
            reset |-> @.reset + (IF self.unsub_reset THEN 1 ELSE 0),
            registry |-> @.registry + (IF self.unsub_registry THEN 1 ELSE 0)]]

Cleanup_SkipReset(self) ==
    [self EXCEPT
       !.unsub_update = FALSE,
       !.unsub_registry = FALSE,
       !.unsub_calls =
           [update |-> @.update + (IF self.unsub_update THEN 1 ELSE 0),
            reset |-> @.reset,
            registry |-> @.registry + (IF self.unsub_registry THEN 1 ELSE 0)]]

_cleanup_listeners(self) ==
    [self EXCEPT
       !.unsub_update = FALSE,
       !.unsub_reset = FALSE,
       !.unsub_registry = FALSE,
       !.unsub_calls =
           [update |-> @.update + (IF self.unsub_update THEN 1 ELSE 0),
            reset |-> @.reset + (IF self.unsub_reset THEN 1 ELSE 0),
            registry |-> @.registry + (IF self.unsub_registry THEN 1 ELSE 0)]]


(***************************************************************************)
(* button.py 126-139.  hasattr(self._energy_sensor, "_reset_energy"): the  *)
(* method is defined by the sensor's class (sensor.py 467), so the         *)
(* attribute lookup succeeds on every sensor object, added or removed.     *)
(* Returns the sensor after the press and what the press did.              *)
(***************************************************************************)
HasResetEnergy(energy_sensor) == TRUE

async_press(energy_sensor, current_time) ==
    IF HasResetEnergy(energy_sensor)
    THEN [sensor |-> _reset_energy(energy_sensor, current_time),
          wrote |-> TRUE, error |-> FALSE]
    ELSE [sensor |-> energy_sensor, wrote |-> FALSE, error |-> TRUE]

(***************************************************************************)
(* State.                                                                  *)
(*   now        dt_util.utcnow(), in ticks                                 *)
(*   skews      backward clock steps so far                                *)
(*   registry   the host's entity registry: per source, whether it is      *)
(*              registered and its disabled_by                             *)
(*   states     hass.states: per source None or Some(state string)         *)
(*   store      the host's restore data per sensor unique_id (one per      *)
(*              source): None or Some(native value last written).  What a  *)
(*              sensor writes before it has restored does not reach the    *)
(*              restore data of the running host; the host saves it when   *)
(*              it stops.                                                  *)
(*   unrounded  per source, the _total_energy_kwh that the value in store  *)
(*              was rounded from (history, read by no operation)           *)
(*   data       hass.data[DOMAIN]                                          *)
(*   sensors    the UniFiEnergyAccumulationSensor objects, by creation     *)
(*   buttons    the UniFiEnergyResetButton objects, by creation            *)
(*   pending    forwarded button-platform setups not yet run               *)
(*   listeners  subscriptions of _async_entity_registry_updated            *)
(*   setups     runs of the sensor platform's async_setup_entry            *)
(*   restarts   restarts of the host                                       *)
(*   ev         the last operation that changed the state                  *)
(*   names      the registry's original_name and name per source           *)
(*   drv        the schedule of a driven specification (None elsewhere)    *)
(*   agg        the per-device variant of unifi_helper/sensor.py: the      *)
(*              polled sensor and its restore data, or the sensors its     *)
(*              setup created (None where the variant is not run)          *)
(***************************************************************************)
VARIABLES now, skews, registry, names, states, store, unrounded, data, sensors, buttons,
          pending, listeners, setups, restarts, ev, drv, agg

vars == <<now, skews, registry, names, states, store, unrounded, data, sensors, buttons,
          pending, listeners, setups, restarts, ev, drv, agg>>

\* The last operation that changed the state.  op: the operation; src: the
\* source or target it names; st: the state string or change it carries;
\* a: the sensor it acted on or created (0: none); wrote: a sensor wrote its
\* state; err: an error was logged.
Event(op, src, st, a, wrote, err) ==
    [op |-> op, src |-> src, st |-> st, a |-> a, wrote |-> wrote, err |-> err]

RegistryEntry(s) ==
    [handle |-> s,
     platform |-> Catalog[s].platform,
     entity_id |-> Catalog[s].entity_id,
     device_id |-> Catalog[s].device_id,
     original_device_class |-> Catalog[s].original_device_class,
     unit_of_measurement |-> Catalog[s].unit_of_measurement,
     unique_id |-> Catalog[s].unique_id,
     original_name |-> names[s].original_name,
     name |-> names[s].name,
     disabled_by |-> registry[s].disabled_by]

EmptyData ==
    [tracked_poe_entities |-> {},
     energy_sensors |-> None,
     button_add_entities |-> FALSE]

NewButton(energy_sensor, registered) ==
    [energy_sensor |-> energy_sensor, registered |-> registered]

\* A registry entry that carries no name: the object id names it.
NoNames == [original_name |-> None, name |-> None]

InitCommon ==
    /\ now = 0
    /\ skews = 0
    /\ names = [s \in Sources |-> NoNames]
    /\ states = [s \in Sources |-> None]
    /\ store = [s \in Sources |-> None]
    /\ unrounded = [s \in Sources |-> None]
    /\ data = EmptyData
    /\ sensors = << >>
    /\ buttons = << >>
    /\ pending = 0
    /\ listeners = 0
    /\ setups = 0
    /\ restarts = 0
    /\ ev = Event("init", "-", None, 0, FALSE, FALSE)

NoDriver ==
    /\ drv = None

NoAggregate ==
    /\ agg = None

RegistryStates ==
    [present : BOOLEAN, disabled_by : {None, Some("user")}]

Absent == [present |-> FALSE, disabled_by |-> None]

Enabled == [present |-> TRUE, disabled_by |-> None]

\* The sources whose registration and enablement change in Spec; x3 stays
\* registered and enabled.
DynamicSources == {"p1", "o2"}

\* The host starts with any registry of the dynamic sources.
Init ==
    /\ InitCommon
    /\ NoAggregate
    /\ NoDriver
    /\ registry \in {f \in [Sources -> {r \in RegistryStates :
                                          r.present \/ r.disabled_by = None}] :
                       f["x3"] = Enabled}

(***************************************************************************)
(* sensor.py 56-121 and 206-211: the sensor platform's async_setup_entry.  *)
(***************************************************************************)
Qualifies(s) == registry[s].present /\ _is_unifi_power_entity(RegistryEntry(s))

Setup ==
    LET power_entities == SelectSeq(SourceOrder, LAMBDA s : Qualifies(s))
        n == Len(power_entities)
        base == Len(sensors)
    IN  /\ setups < MaxSetups
        /\ base + n <= MaxSensors
        /\ setups' = setups + 1
        /\ sensors' = sensors \o [i \in 1..n |-> NewSensor(power_entities[i],
                                        RegistryEntry(power_entities[i]))]
        /\ data' = [data EXCEPT
              !.tracked_poe_entities = {power_entities[i] : i \in 1..n},
              !.energy_sensors =
                  IF n > 0 THEN Some([i \in 1..n |-> base + i]) ELSE @]
        /\ pending' = IF n > 0 THEN pending + 1 ELSE pending
        /\ listeners' = listeners + 1
        /\ ev' = Event("setup", "-", None, 0, FALSE, FALSE)
        /\ UNCHANGED <<now, skews, registry, names, states, store, unrounded, buttons, restarts, agg, drv>>

(***************************************************************************)
(* button.py 20-61: the button platform's async_setup_entry, run by the    *)
(* task that sensor.py 117-119 creates.                                    *)
(***************************************************************************)
ButtonSetup ==
    LET list == IF data.energy_sensors = None THEN << >>
                ELSE Val(data.energy_sensors)
    IN  /\ pending > 0
        /\ Len(buttons) + Len(list) <= MaxButtons
        /\ pending' = pending - 1
        /\ data' = [data EXCEPT !.button_add_entities = TRUE]
        /\ buttons' = buttons \o [i \in 1..Len(list) |-> NewButton(list[i], TRUE)]
        /\ ev' = Event("button_setup", "-", None, 0, FALSE, FALSE)
        /\ UNCHANGED <<now, skews, registry, names, states, store, unrounded, sensors, listeners,
                       setups, restarts, agg, drv>>

(***************************************************************************)
(* sensor.py 124-204: the registry listener.  w is what the listener can   *)
(* change: hass.data[DOMAIN], the sensor objects and the button objects.   *)
(* changes holds the changed keys with their old values:                   *)
(*   [disabled_by |-> None]             key "disabled_by" is not present   *)
(*   [disabled_by |-> Some(old)]        present, old is None or            *)
(*                                      Some("user")                       *)
(***************************************************************************)
ChangeSets ==
    { [disabled_by |-> None],
      [disabled_by |-> Some(None)],
      [disabled_by |-> Some(Some("user"))] }

RegistryUpdated_NoTrackedCheck(w, action, entity_id, changes) ==
    LET present == registry[entity_id].present
        enabled_now == present /\ registry[entity_id].disabled_by = None
        proceed ==
            CASE action = "create" -> TRUE
              [] action = "update" ->
                    /\ changes.disabled_by # None
                    /\ enabled_now
                    /\ Val(changes.disabled_by) # None
              [] OTHER -> FALSE
        idx == Len(w.sensors) + 1
    IN  IF ~proceed THEN w
        ELSE IF ~present \/ ~_is_unifi_power_entity(RegistryEntry(entity_id))
                \/ Catalog[entity_id].device_id = ""
        THEN w
        ELSE [data |-> [w.data EXCEPT
                  !.tracked_poe_entities = @ \cup {entity_id},
                  !.energy_sensors =
                      IF @ = None THEN Some(<<idx>>)
                      ELSE Some(Append(Val(@), idx))],
              sensors |-> Append(w.sensors, NewSensor(entity_id,
                                                  RegistryEntry(entity_id))),
              buttons |-> Append(w.buttons,
                                 NewButton(idx, w.data.button_add_entities))]

RegistryUpdated_AnyDisabledChange(w, action, entity_id, changes) ==
    LET present == registry[entity_id].present
        enabled_now == present /\ registry[entity_id].disabled_by = None
        proceed ==
            CASE action = "create" -> TRUE
              [] action = "update" ->
                    /\ changes.disabled_by # None
                    /\ enabled_now
              [] OTHER -> FALSE
        idx == Len(w.sensors) + 1
    IN  IF ~proceed THEN w
        ELSE IF entity_id \in w.data.tracked_poe_entities THEN w
        ELSE IF ~present \/ ~_is_unifi_power_entity(RegistryEntry(entity_id))
                \/ Catalog[entity_id].device_id = ""
        THEN w
        ELSE [data |-> [w.data EXCEPT
                  !.tracked_poe_entities = @ \cup {entity_id},
                  !.energy_sensors =
                      IF @ = None THEN Some(<<idx>>)
                      ELSE Some(Append(Val(@), idx))],
              sensors |-> Append(w.sensors, NewSensor(entity_id,
                                                  RegistryEntry(entity_id))),
              buttons |-> Append(w.buttons,
                                 NewButton(idx, w.data.button_add_entities))]

_async_entity_registry_updated(w, action, entity_id, changes) ==
    LET present == registry[entity_id].present
        enabled_now == present /\ registry[entity_id].disabled_by = None
        proceed ==
            CASE action = "create" -> TRUE
              [] action = "update" ->
                    /\ changes.disabled_by # None
                    /\ enabled_now
                    /\ Val(changes.disabled_by) # None
              [] OTHER -> FALSE
        idx == Len(w.sensors) + 1
    IN  IF ~proceed THEN w
        ELSE IF entity_id \in w.data.tracked_poe_entities THEN w
        ELSE IF ~present \/ ~_is_unifi_power_entity(RegistryEntry(entity_id))
                \/ Catalog[entity_id].device_id = ""
        THEN w
        ELSE [data |-> [w.data EXCEPT
                  !.tracked_poe_entities = @ \cup {entity_id},
                  !.energy_sensors =
                      IF @ = None THEN Some(<<idx>>)
                      ELSE Some(Append(Val(@), idx))],
              sensors |-> Append(w.sensors, NewSensor(entity_id,
                                                  RegistryEntry(entity_id))),
              buttons |-> Append(w.buttons,
                                 NewButton(idx, w.data.button_add_entities))]

(***************************************************************************)
(* sensor.py 282-310 and 407-424: a sensor's own registry listener, which  *)
(* follows the name of its power entity.  changes is the set of changed    *)
(* keys, poe_entry what entity_registry.async_get returns: None or         *)
(* Some(entry).  The result is the sensor and whether it wrote its state.  *)
(***************************************************************************)
_update_name_from_poe_entity(self, poe_entry) ==
    LET energy_name == EnergyName(self.poe, poe_entry)
    IN  IF self.name # energy_name
        THEN [self |-> [self EXCEPT !.name = energy_name], wrote |-> TRUE]
        ELSE [self |-> self, wrote |-> FALSE]

_async_handle_poe_registry_update(self, action, entity_id, changes, poe_entry) ==
    IF action # "update" THEN [self |-> self, wrote |-> FALSE]
    ELSE IF entity_id # self.poe THEN [self |-> self, wrote |-> FALSE]
    ELSE IF ("name" \in changes \/ "original_name" \in changes)
            /\ poe_entry # None
         THEN _update_name_from_poe_entity(self, Val(poe_entry))
         ELSE [self |-> self, wrote |-> FALSE]

\* The bus calls the registry listener of every subscribed sensor.
NameListeners(ss, action, entity_id, changes, poe_entry) ==
    [a \in 1..Len(ss) |->
       IF ss[a].unsub_registry
       THEN _async_handle_poe_registry_update(ss[a], action, entity_id,
                                              changes, poe_entry)
       ELSE [self |-> ss[a], wrote |-> FALSE]]

\* The bus calls every subscribed listener, one after the other.
RECURSIVE Deliver(_, _, _, _, _)
Deliver(k, w, action, entity_id, changes) ==
    IF k = 0 THEN w
    ELSE Deliver(k - 1,
                 _async_entity_registry_updated(w, action, entity_id, changes),
                 action, entity_id, changes)

\* An entity-registry event reaches the listeners.
EntityRegistryUpdated(action, entity_id, changes) ==
    LET w == [data |-> data, sensors |-> sensors, buttons |-> buttons]
        w2 == Deliver(listeners, w, action, entity_id, changes)
    IN  /\ listeners > 0
        /\ Len(w2.sensors) <= MaxSensors
        /\ Len(w2.buttons) <= MaxButtons
        /\ data' = w2.data
        /\ sensors' = [a \in 1..Len(w2.sensors) |->
                         NameListeners(w2.sensors, action, entity_id,
                             IF changes.disabled_by = None THEN {}
                             ELSE {"disabled_by"},
                             IF registry[entity_id].present
                             THEN Some(RegistryEntry(entity_id))
                             ELSE None)[a].self]
        /\ buttons' = w2.buttons
        /\ ev' = IF w2 = w THEN ev
                 ELSE Event(action, entity_id,
                            IF changes.disabled_by = None THEN None
                            ELSE IF Val(changes.disabled_by) = None
                                 THEN Some("was_enabled")
                                 ELSE Some("was_disabled"),
                            Len(w2.sensors), FALSE, FALSE)
        /\ UNCHANGED <<now, skews, registry, names, states, store, unrounded, pending, listeners,
                       setups, restarts, agg, drv>>

\* The host's registry changes: an entity is registered, enabled, disabled
\* or removed.
RegistryChange(s, r) ==
    /\ registry[s] # r
    /\ r.present \/ r.disabled_by = None
    /\ registry' = [registry EXCEPT ![s] = r]
    /\ ev' = Event("registry", s, None, 0, FALSE, FALSE)
    /\ UNCHANGED <<now, skews, names, states, store, unrounded, data, sensors, buttons,
                   pending, listeners, setups, restarts, agg, drv>>

(***************************************************************************)
(* The entity platform adds a sensor: sensor.py 335-346, then 356-432.     *)
(* The platform adds only enabled entities, so self.enabled holds.         *)
(***************************************************************************)
InternalAdded(a) ==
    /\ sensors[a].pc = "created"
    /\ sensors' = [sensors EXCEPT ![a].pc = "tracking",
                                  ![a].unsub_update = TRUE]
    /\ ev' = Event("internal_added", sensors[a].poe, None, a, FALSE, FALSE)
    /\ UNCHANGED <<now, skews, registry, names, states, store, unrounded, data, buttons, pending,
                   listeners, setups, restarts, agg, drv>>

AddedToHass(a) ==
    LET self == sensors[a]
        restored == RestoreTotal(self, store[self.poe])
        seeded == _async_initialize_from_current_state(
                      restored, states[self.poe], now)
        done == [seeded EXCEPT !.pc = "added",
                               !.unsub_reset = TRUE,
                               !.unsub_registry = TRUE]
    IN  /\ self.pc = "tracking"
        /\ sensors' = [sensors EXCEPT ![a] = done]
        /\ store' = [store EXCEPT ![self.poe] = Some(native_value(done))]
        /\ unrounded' = [unrounded EXCEPT ![self.poe] = Some(done.total_energy_kwh)]
        /\ ev' = Event("added", self.poe,
                       IF store[self.poe] = None THEN None ELSE Some("restored"),
                       a, TRUE, FALSE)
        /\ UNCHANGED <<now, skews, registry, names, states, data, buttons, pending,
                       listeners, setups, restarts, agg, drv>>

(***************************************************************************)
(* The entity platform removes a sensor: sensor.py 348-354, then 434-452.  *)
(***************************************************************************)
InternalWillRemove(a) ==
    /\ sensors[a].pc = "added"
    /\ sensors' = [sensors EXCEPT
                     ![a] = [_cleanup_listeners(@) EXCEPT !.pc = "removing"]]
    /\ ev' = Event("internal_will_remove", sensors[a].poe, None, a, FALSE, FALSE)
    /\ UNCHANGED <<now, skews, registry, names, states, store, unrounded, data, buttons, pending,
                   listeners, setups, restarts, agg, drv>>

async_will_remove_from_hass(self, current_time) ==
    _cleanup_listeners(_calculate_energy_increment(self, current_time, None))

WillRemove(a) ==
    LET done == [async_will_remove_from_hass(sensors[a], now)
                   EXCEPT !.pc = "removed"]
    IN  /\ sensors[a].pc = "removing"
        /\ sensors' = [sensors EXCEPT ![a] = done]
        /\ store' = [store EXCEPT ![done.poe] = Some(native_value(done))]
        /\ unrounded' = [unrounded EXCEPT ![done.poe] = Some(done.total_energy_kwh)]
        /\ ev' = Event("will_remove", done.poe, None, a, TRUE, FALSE)
        /\ UNCHANGED <<now, skews, registry, names, states, data, buttons, pending,
                       listeners, setups, restarts, agg, drv>>

(***************************************************************************)
(* A state-change event of source s: the tracker calls                     *)
(* _async_power_changed of every sensor subscribed to s (sensor.py         *)
(* 341-345), in creation order.                                            *)
(***************************************************************************)
\* A sensor that has run its restore (sensor.py 360-376).
Restored(self) == self.pc \notin {"created", "tracking"}

Subscribed_AnySource(s) ==
    {a \in 1..Len(sensors) : sensors[a].unsub_update}

\* sensor.py 339-346: async_track_state_change_event(hass, [poe_entity_id], ...)
Subscribed(s) ==
    {a \in 1..Len(sensors) : sensors[a].poe = s /\ sensors[a].unsub_update}

Max(S) == CHOOSE x \in S : \A y \in S : y <= x

StateChangedCore(s, new_state) ==
    LET subs == Subscribed(s)
        res == [a \in subs |-> _async_power_changed(sensors[a], new_state, now)]
        writers == {a \in subs : res[a].wrote}
        saved == {a \in writers : Restored(sensors[a])}
    IN  /\ states' = [states EXCEPT ![s] = new_state]
        /\ sensors' = [a \in 1..Len(sensors) |->
                         IF a \in subs THEN res[a].self ELSE sensors[a]]
        /\ store' = IF saved = {} THEN store
                    ELSE [store EXCEPT
                            ![s] = Some(native_value(res[Max(saved)].self))]
        /\ unrounded' = IF saved = {} THEN unrounded
                    ELSE [unrounded EXCEPT
                            ![s] = Some(res[Max(saved)].self.total_energy_kwh)]
        /\ ev' = Event("state_changed", s,
                       IF \E a \in writers :
                             /\ sensors[a].last_update_time # None
                             /\ now <= Val(sensors[a].last_update_time)
                       THEN Some("not_later") ELSE None,
                       IF subs = {} THEN 0 ELSE Max(subs),
                       writers # {}, FALSE)
        /\ UNCHANGED <<now, skews, registry, names, data, buttons, pending, listeners,
                       setups, restarts, agg>>

StateChanged(s, new_state) == StateChangedCore(s, new_state) /\ UNCHANGED drv

(***************************************************************************)
(* A "<DOMAIN>_reset_energy" event for entity id target (sensor.py         *)
(* 396-405).  A sensor's own entity id is derived by the host from its     *)
(* unique_id, which is the source's unique_id plus "_energy" (sensor.py    *)
(* 266-270): it is named here by the source's handle.                      *)
(***************************************************************************)
ResetListeners_NoFilter(target) ==
    {a \in 1..Len(sensors) : sensors[a].unsub_reset}

ResetListeners(target) ==
    {a \in 1..Len(sensors) : sensors[a].unsub_reset /\ sensors[a].poe = target}

ResetEventCore(target) ==
    LET hit == ResetListeners(target)
    IN  /\ sensors' = [a \in 1..Len(sensors) |->
                         IF a \in hit THEN _reset_energy(sensors[a], now)
                         ELSE sensors[a]]
        /\ store' = IF hit = {} \/ target \notin Sources THEN store
                    ELSE [store EXCEPT
                            ![target] = Some(native_value(sensors'[Max(hit)]))]
        /\ unrounded' = IF hit = {} \/ target \notin Sources THEN unrounded
                    ELSE [unrounded EXCEPT
                            ![target] = Some(sensors'[Max(hit)].total_energy_kwh)]
        /\ ev' = Event("reset_event", target,
                       IF hit = {} THEN None
                       ELSE IF \A a \in hit : sensors[a].total_energy_kwh = 0
                            THEN Some("was_zero")
                            ELSE Some("was_nonzero"),
                       IF hit = {} THEN 0 ELSE Max(hit), hit # {}, FALSE)
        /\ UNCHANGED <<now, skews, registry, names, states, data, buttons, pending,
                       listeners, setups, restarts, agg>>

ResetEvent(target) == ResetEventCore(target) /\ UNCHANGED drv

(***************************************************************************)
(* The host renames a registered source: async_update_entity sets key      *)
(* ("name" or "original_name") to v and fires an "update" registry event   *)
(* whose changes hold that key.  The sensors' listeners (sensor.py         *)
(* 407-429) run on it; the discovery listener returns at once, because     *)
(* the changes hold no "disabled_by" (sensor.py 136-137).                  *)
(***************************************************************************)
Rename(s, key, v) ==
    LET poe_entry == [RegistryEntry(s) EXCEPT ![key] = v]
        res == NameListeners(sensors, "update", s, {key}, Some(poe_entry))
        writers == {a \in 1..Len(sensors) : res[a].wrote}
    IN  /\ registry[s].present
        /\ names[s][key] # v
        /\ names' = [names EXCEPT ![s][key] = v]
        /\ sensors' = [a \in 1..Len(sensors) |-> res[a].self]
        /\ store' = IF writers = {} THEN store
                    ELSE [store EXCEPT
                            ![s] = Some(native_value(sensors'[Max(writers)]))]
        /\ unrounded' = IF writers = {} THEN unrounded
                    ELSE [unrounded EXCEPT
                            ![s] = Some(sensors'[Max(writers)].total_energy_kwh)]
        /\ ev' = Event("rename", s, Some(key),
                       IF writers = {} THEN 0 ELSE Max(writers),
                       writers # {}, FALSE)
        /\ UNCHANGED <<now, skews, registry, states, data, buttons, pending,
                       listeners, setups, restarts, agg, drv>>

(***************************************************************************)
(* The user presses a registered reset button: button.py 126-139.          *)
(***************************************************************************)
Press(b) ==
    LET a == buttons[b].energy_sensor
        r == async_press(sensors[a], now)
    IN  /\ buttons[b].registered
        /\ sensors' = [sensors EXCEPT ![a] = r.sensor]
        /\ store' = IF r.wrote /\ Restored(sensors[a])
                    THEN [store EXCEPT
                            ![r.sensor.poe] = Some(native_value(r.sensor))]
                    ELSE store
        /\ unrounded' = IF r.wrote /\ Restored(sensors[a])
                    THEN [unrounded EXCEPT
                            ![r.sensor.poe] = Some(r.sensor.total_energy_kwh)]
                    ELSE unrounded
        /\ ev' = Event("press", r.sensor.poe,
                       IF sensors[a].total_energy_kwh = 0 THEN Some("was_zero")
                       ELSE Some("was_nonzero"),
                       a, r.wrote, r.error)
        /\ UNCHANGED <<now, skews, registry, names, states, data, buttons, pending,
                       listeners, setups, restarts, agg, drv>>

(***************************************************************************)
(* The clock.  utcnow() is wall-clock time: it normally advances and may   *)
(* be set back.                                                            *)
(***************************************************************************)
TickCore(d) ==
    /\ d < 0 => skews < MaxSkew
    /\ now' = now + d
    /\ skews' = IF d < 0 THEN skews + 1 ELSE skews
    /\ ev' = Event("tick", "-", None, 0, FALSE, FALSE)
    /\ UNCHANGED <<registry, names, states, store, unrounded, data, sensors, buttons, pending,
                   listeners, setups, restarts, agg>>

Tick(d) == now + d \in 0..MaxTime /\ TickCore(d) /\ UNCHANGED drv

(***************************************************************************)
(* The host restarts: every object and hass.data are gone, the registry    *)
(* and the restore data are kept.                                          *)
(***************************************************************************)
\* The sensors whose written state the stopping host saves although they
\* have not restored: they track their source and have written.
SavedAtStop(s) ==
    {a \in 1..Len(sensors) :
        /\ sensors[a].poe = s
        /\ sensors[a].pc = "tracking"
        /\ sensors[a].last_update_time # None}

Restart ==
    /\ restarts < MaxRestarts
    /\ restarts' = restarts + 1
    /\ store' = [s \in Sources |->
                   IF SavedAtStop(s) = {} THEN store[s]
                   ELSE Some(native_value(sensors[Max(SavedAtStop(s))]))]
    /\ unrounded' = [s \in Sources |->
                   IF SavedAtStop(s) = {} THEN unrounded[s]
                   ELSE Some(sensors[Max(SavedAtStop(s))].total_energy_kwh)]
    /\ states' = [s \in Sources |-> None]
    /\ data' = EmptyData
    /\ sensors' = << >>
    /\ buttons' = << >>
    /\ pending' = 0
    /\ listeners' = 0
    /\ setups' = 0
    /\ ev' = Event("restart", "-", None, 0, FALSE, FALSE)
    /\ UNCHANGED <<now, skews, registry, names, drv, agg>>

(***************************************************************************)
(* Specification Spec: discovery and life cycle, over three sources, with  *)
(* few power readings.                                                     *)
(***************************************************************************)
\* The registry events: "create" and "remove" carry no changes.
RegistryEvents ==
    {<<"create", [disabled_by |-> None]>>, <<"remove", [disabled_by |-> None]>>}
    \cup {<<"update", ch>> : ch \in ChangeSets}

Next ==
    \/ Setup
    \/ ButtonSetup
    \/ \E a \in 1..Len(sensors) : InternalAdded(a)
    \/ \E a \in 1..Len(sensors) : AddedToHass(a)
    \/ \E a \in 1..Len(sensors) : InternalWillRemove(a)
    \/ \E a \in 1..Len(sensors) : WillRemove(a)
    \/ \E s \in DynamicSources, r \in RegistryStates : RegistryChange(s, r)
    \/ \E e \in RegistryEvents, s \in Sources :
          EntityRegistryUpdated(e[1], s, e[2])

Spec == Init /\ [][Next]_vars

(***************************************************************************)
(* Specification SpecAcc: one registered port, its sensor and its button,  *)
(* with the readings, the clock and restarts of the host.                  *)
(***************************************************************************)
AccStates ==
    {None, Some("unavailable"), Some("unknown"), Some("abc"),
     Some("10"), Some("2e1"), Some("-5")}

ClockSteps == {0 - 1, 1, 2}

InitAcc ==
    /\ InitCommon
    /\ NoAggregate
    /\ NoDriver
    /\ registry = [s \in Sources |-> IF s = "p1" THEN Enabled ELSE Absent]

NextAcc ==
    \/ (setups = 0 /\ Setup)
    \/ ButtonSetup
    \/ \E a \in 1..Len(sensors) : InternalAdded(a)
    \/ \E a \in 1..Len(sensors) : AddedToHass(a)
    \/ \E a \in 1..Len(sensors) : InternalWillRemove(a)
    \/ \E a \in 1..Len(sensors) : WillRemove(a)
    \/ \E st \in AccStates : StateChanged("p1", st)
    \/ \E t \in {"p1", "other"} : ResetEvent(t)
    \/ \E b \in 1..Len(buttons) : Press(b)
    \/ \E d \in ClockSteps : Tick(d)
    \/ Restart

SpecAcc == InitAcc /\ [][NextAcc]_vars

(***************************************************************************)
(* Specification SpecEven: one port sampled on a schedule.  The schedule   *)
(* drv = Some([P, T, n, t0]) feeds the state string P to the added sensor  *)
(* at t0, t0 + T, t0 + 2T, ...; n counts the samples fed so far.           *)
(***************************************************************************)
MaxEvenTime == 5
MaxEvenStep == 2

InitEven ==
    /\ InitCommon
    /\ NoAggregate
    /\ registry = [s \in Sources |-> IF s = "p1" THEN Enabled ELSE Absent]
    /\ drv \in {Some([P |-> p, T |-> step, n |-> 0, t0 |-> 0]) :
                  p \in NumericStrings, step \in 1..MaxEvenStep}

EvenSample ==
    LET d == Val(drv)
    IN  /\ Len(sensors) = 1
        /\ sensors[1].pc = "added"
        /\ d.n = 0 \/ now = d.t0 + d.n * d.T
        /\ StateChangedCore("p1", Some(d.P))
        /\ drv' = Some([d EXCEPT !.n = @ + 1,
                                 !.t0 = IF d.n = 0 THEN now ELSE @])

EvenTick ==
    /\ now < MaxEvenTime
    /\ TickCore(1)
    /\ UNCHANGED drv

NextEven ==
    \/ (setups = 0 /\ Setup)
    \/ \E a \in 1..Len(sensors) : InternalAdded(a)
    \/ \E a \in 1..Len(sensors) : AddedToHass(a)
    \/ EvenSample
    \/ EvenTick

SpecEven == InitEven /\ [][NextEven]_vars

(***************************************************************************)
(* Specification SpecReset: two registered ports, each with its sensor,    *)
(* sampled independently, and reset events for either sensor or for an     *)
(* entity that is not a sensor of this integration.                        *)
(***************************************************************************)
ResetPorts == {"p1", "o2"}
ResetSamples == {Some("10"), Some("2e1"), Some("unavailable")}
ResetEventTargets == ResetPorts \cup {"other"}

InitReset ==
    /\ InitCommon
    /\ NoAggregate
    /\ NoDriver
    /\ registry = [s \in Sources |-> IF s \in ResetPorts THEN Enabled ELSE Absent]

NextReset ==
    \/ (setups = 0 /\ Setup)
    \/ \E a \in 1..Len(sensors) : InternalAdded(a)
    \/ \E a \in 1..Len(sensors) : AddedToHass(a)
    \/ \E s \in ResetPorts, st \in ResetSamples : StateChanged(s, st)
    \/ \E t \in ResetEventTargets : ResetEvent(t)
    \/ Tick(1)

SpecReset == InitReset /\ [][NextReset]_vars

(***************************************************************************)
(* Specification SpecRound: one port that reports 1 W or 10 W, so that     *)
(* totals fall between two displayed values; its sensor is sampled, reset, *)
(* removed, and created again after a restart of the host.                 *)
(***************************************************************************)
RoundSamples == {Some("1"), Some("10")}

InitRound ==
    /\ InitCommon
    /\ NoAggregate
    /\ NoDriver
    /\ registry = [s \in Sources |-> IF s = "p1" THEN Enabled ELSE Absent]

NextRound ==
    \/ (setups = 0 /\ Setup)
    \/ \E a \in 1..Len(sensors) : InternalAdded(a)
    \/ \E a \in 1..Len(sensors) : AddedToHass(a)
    \/ \E a \in 1..Len(sensors) : InternalWillRemove(a)
    \/ \E a \in 1..Len(sensors) : WillRemove(a)
    \/ \E st \in RoundSamples : StateChanged("p1", st)
    \/ ResetEvent("p1")
    \/ Tick(1)
    \/ Restart

SpecRound == InitRound /\ [][NextRound]_vars

(***************************************************************************)
(* unifi_helper/sensor.py: the per-device sensor, which polls the power    *)
(* entities of one device on a timer.                                      *)
(***************************************************************************)
\* unifi_helper/sensor.py 120-142
NewAggregate(poe_entity_ids) ==
    [pc |-> "created",
     poe_entity_ids |-> poe_entity_ids,
     total_energy_kwh |-> 0,
     last_update |-> None,
     unsub_update |-> FALSE]

\* unifi_helper/sensor.py 150-153
AggNativeValue(self) ==
    RoundHalfEven(self.total_energy_kwh * Thousandths, WsPerKwh)

\* unifi_helper/sensor.py 231-239: the entities whose state counts as a
\* reading, and the sum of their readings.
ValidReadings(self) ==
    {i \in 1..Len(self.poe_entity_ids) :
        LET state == states[self.poe_entity_ids[i]]
        IN  /\ state # None
            /\ Val(state) \notin {"unknown", "unavailable"}
            /\ ~FloatRaises(Val(state))}

RECURSIVE SumReadings(_, _)
SumReadings(self, i) ==
    IF i = 0 THEN 0
    ELSE SumReadings(self, i - 1)
         + (IF i \in ValidReadings(self)
            THEN PyFloat(Val(states[self.poe_entity_ids[i]]))
            ELSE 0)

\* unifi_helper/sensor.py 215-259.  Every path writes the state.
AsyncUpdate_HoldTickWhenNoneValid(self, current_time) ==
    IF self.last_update = None
    THEN [self EXCEPT !.last_update = Some(current_time)]
    ELSE IF ValidReadings(self) = {} THEN self
    ELSE [self EXCEPT
            !.total_energy_kwh =
                @ + SumReadings(self, Len(self.poe_entity_ids))
                    * TotalSeconds(current_time, Val(self.last_update)),
            !.last_update = Some(current_time)]

AsyncUpdate_ChargeFirstTick(self, current_time) ==
    LET time_delta_seconds ==
            TotalSeconds(current_time,
                         IF self.last_update = None THEN 0
                         ELSE Val(self.last_update))
        total_power_watts == SumReadings(self, Len(self.poe_entity_ids))
        valid_readings == Cardinality(ValidReadings(self))
    IN  [self EXCEPT
           !.total_energy_kwh =
               IF valid_readings > 0
               THEN @ + total_power_watts * time_delta_seconds
               ELSE @,
           !.last_update = Some(current_time)]

_async_update(self, current_time) ==
    IF self.last_update = None
    THEN [self EXCEPT !.last_update = Some(current_time)]
    ELSE LET time_delta_seconds ==
                 TotalSeconds(current_time, Val(self.last_update))
             total_power_watts == SumReadings(self, Len(self.poe_entity_ids))
             valid_readings == Cardinality(ValidReadings(self))
         IN  [self EXCEPT
                !.total_energy_kwh =
                    IF valid_readings > 0
                    THEN @ + total_power_watts * time_delta_seconds
                    ELSE @,
                !.last_update = Some(current_time)]

\* unifi_helper/sensor.py 163-207: restore, start the timer, first update.
AggAdded ==
    LET self == Val(agg).sensor
        data0 == Val(agg).last_sensor_data
        restored == IF data0 # None
                    THEN [self EXCEPT
                            !.total_energy_kwh = FloatOfStored(Val(data0))]
                    ELSE self
        started == [restored EXCEPT !.unsub_update = TRUE, !.pc = "added"]
        done == _async_update(started, now)
    IN  /\ agg # None
        /\ self.pc = "created"
        /\ agg' = Some([sensor |-> done,
                        last_sensor_data |-> Some(AggNativeValue(done))])
        /\ ev' = Event("agg_added", "-",
                       IF data0 = None THEN None ELSE Some("restored"),
                       0, TRUE, FALSE)
        /\ UNCHANGED <<now, skews, registry, names, states, store, unrounded, data,
                       sensors, buttons, pending, listeners, setups, restarts,
                       drv>>

\* unifi_helper/sensor.py 163-196: line 196 hands the result of a call of a
\* plain function, which is None, to hass.async_create_task.  Where the host
\* rejects that with an exception, async_added_to_hass ends there: the total
\* is restored, no timer is started and no update runs.
AggAddedRaises ==
    LET self == Val(agg).sensor
        data0 == Val(agg).last_sensor_data
        restored == IF data0 # None
                    THEN [self EXCEPT
                            !.total_energy_kwh = FloatOfStored(Val(data0))]
                    ELSE self
    IN  /\ agg # None
        /\ self.pc = "created"
        /\ agg' = Some([Val(agg) EXCEPT
                          !.sensor = [restored EXCEPT !.pc = "add_failed"]])
        /\ ev' = Event("agg_added", "-", Some("raised"), 0, FALSE, TRUE)
        /\ UNCHANGED <<now, skews, registry, names, states, store, unrounded, data,
                       sensors, buttons, pending, listeners, setups, restarts,
                       drv>>

\* The timer fires: unifi_helper/sensor.py 200-204 calls _async_update.
PollTick ==
    LET self == Val(agg).sensor
        done == _async_update(self, now)
    IN  /\ agg # None
        /\ self.unsub_update
        /\ agg' = Some([sensor |-> done,
                        last_sensor_data |-> Some(AggNativeValue(done))])
        /\ ev' = Event("poll", "-",
                       IF self.last_update = None THEN Some("first")
                       ELSE IF now <= Val(self.last_update)
                            THEN Some("not_later")
                            ELSE Some("later"),
                       Cardinality(ValidReadings(self)), TRUE, FALSE)
        /\ UNCHANGED <<now, skews, registry, names, states, store, unrounded, data,
                       sensors, buttons, pending, listeners, setups, restarts,
                       drv>>

\* unifi_helper/sensor.py 209-213
AggWillRemove ==
    LET self == Val(agg).sensor
    IN  /\ agg # None
        /\ self.pc = "added"
        /\ agg' = Some([Val(agg) EXCEPT
                          !.sensor = [self EXCEPT !.unsub_update = FALSE,
                                                  !.pc = "removed"]])
        /\ ev' = Event("agg_will_remove", "-", None, 0, FALSE, FALSE)
        /\ UNCHANGED <<now, skews, registry, names, states, store, unrounded, data,
                       sensors, buttons, pending, listeners, setups, restarts,
                       drv>>

(***************************************************************************)
(* Specification SpecPoll: one device with two power entities and its      *)
(* per-device sensor; the entities' states change, the clock moves         *)
(* forward and may be set back, and the timer fires at any time.           *)
(***************************************************************************)
AggSources == <<"p1", "o2">>
PollStates == {None, Some("unavailable"), Some("abc"), Some("10"), Some("1")}
PollRestoreData == {None, Some(0), Some(5)}

InitPoll ==
    /\ InitCommon
    /\ NoDriver
    /\ registry = [s \in Sources |-> Enabled]
    /\ agg \in {Some([sensor |-> NewAggregate(AggSources),
                      last_sensor_data |-> d]) : d \in PollRestoreData}

NextPoll ==
    \/ AggAdded
    \/ AggAddedRaises
    \/ PollTick
    \/ AggWillRemove
    \/ \E i \in 1..Len(AggSources), st \in PollStates :
          StateChanged(AggSources[i], st)
    \/ \E d \in ClockSteps : Tick(d)

SpecPoll == InitPoll /\ [][NextPoll]_vars

(***************************************************************************)
(* Specification SpecAfterReset: one port whose sensor gets a first        *)
(* reading P, is then reset at time r, and gets its next reading later.    *)
(* The schedule drv = Some([P, phase, first, r]) records the reading, how  *)
(* far the scenario has come, and the times of the first reading and of    *)
(* the reset.                                                              *)
(***************************************************************************)
InitAfterReset ==
    /\ InitCommon
    /\ NoAggregate
    /\ registry = [s \in Sources |-> IF s = "p1" THEN Enabled ELSE Absent]
    /\ drv \in {Some([P |-> p, phase |-> 0, first |-> 0, r |-> 0]) :
                  p \in NumericStrings}

FirstReading ==
    LET d == Val(drv)
    IN  /\ d.phase = 0
        /\ Len(sensors) = 1
        /\ sensors[1].pc = "added"
        /\ StateChangedCore("p1", Some(d.P))
        /\ drv' = Some([d EXCEPT !.phase = 1, !.first = now])

ResetAfterReading ==
    LET d == Val(drv)
    IN  /\ d.phase = 1
        /\ ResetEventCore("p1")
        /\ drv' = Some([d EXCEPT !.phase = 2, !.r = now])

ReadingAfterReset ==
    LET d == Val(drv)
    IN  /\ d.phase = 2
        /\ now > d.r
        /\ \E q \in NumericStrings : StateChangedCore("p1", Some(q))
        /\ drv' = Some([d EXCEPT !.phase = 3])

NextAfterReset ==
    \/ (setups = 0 /\ Setup)
    \/ \E a \in 1..Len(sensors) : InternalAdded(a)
    \/ \E a \in 1..Len(sensors) : AddedToHass(a)
    \/ FirstReading
    \/ ResetAfterReading
    \/ ReadingAfterReset
    \/ EvenTick

SpecAfterReset == InitAfterReset /\ [][NextAfterReset]_vars

(***************************************************************************)
(* Specification SpecRename: two ports whose names the host changes while  *)
(* their sensors are created, added, fed readings and removed.             *)
(***************************************************************************)
RenamePorts == {"p1", "o2"}
RenameSamples == {Some("10")}

\* The names the host gives: p1 gets upstream and user names, o2 a user name.
RenameValues(s, key) ==
    IF s = "p1" /\ key = "original_name"
    THEN {None, Some(NamePoEPower), Some(NamePoELower)}
    ELSE IF s = "p1"
    THEN {None, Some(NameEmpty), Some(NameLamp)}
    ELSE IF key = "name"
    THEN {None, Some(NameOutletTwice)}
    ELSE {None}

InitRename ==
    /\ InitCommon
    /\ NoAggregate
    /\ NoDriver
    /\ registry = [s \in Sources |-> IF s \in RenamePorts THEN Enabled ELSE Absent]

NextRename ==
    \/ (setups = 0 /\ Setup)
    \/ \E a \in 1..Len(sensors) : InternalAdded(a)
    \/ \E a \in 1..Len(sensors) : AddedToHass(a)
    \/ \E a \in 1..Len(sensors) : InternalWillRemove(a)
    \/ \E a \in 1..Len(sensors) : WillRemove(a)
    \/ \E st \in RenameSamples : StateChanged("p1", st)
    \/ \E s \in RenamePorts, key \in {"name", "original_name"} :
          \E v \in RenameValues(s, key) : Rename(s, key, v)
    \/ Tick(1)

SpecRename == InitRename /\ [][NextRename]_vars

(***************************************************************************)
(* unifi_helper/sensor.py 36-108: the setup of the per-device variant.  It *)
(* groups the power entities it finds by device and makes one sensor per   *)
(* device; it keeps no set of tracked entities.                            *)
(***************************************************************************)
\* unifi_helper/sensor.py 60-65
AggIsPoe(entity_id, unique_id) ==
    \/ Contains(Lower(entity_id), WordPort)
    \/ Contains(Lower(entity_id), WordPoe)
    \/ (unique_id # << >> /\ Contains(Lower(unique_id), WordPort))
    \/ (unique_id # << >> /\ Contains(Lower(unique_id), WordPoe))

\* The answer for each catalogue entry, computed once.
AggIsPoeOf ==
    [s \in Sources |-> AggIsPoe(Catalog[s].entity_id, Catalog[s].unique_id)]

\* unifi_helper/sensor.py 51-57 and 67
AggQualifies(s) ==
    /\ registry[s].present
    /\ Catalog[s].platform = UNIFI_DOMAIN
    /\ StartsWith(Catalog[s].entity_id, SensorDot)
    /\ Catalog[s].device_id # ""
    /\ Catalog[s].original_device_class = "power"
    /\ Catalog[s].unit_of_measurement = "W"
    /\ AggIsPoeOf[s]

\* The devices, in the order in which the registry lists their entities.
DeviceOrder == <<"dev1", "dev2">>

\* unifi_helper/sensor.py 71-73
device_poe_map(device_id) ==
    SelectSeq(SourceOrder,
              LAMBDA s : AggQualifies(s) /\ Catalog[s].device_id = device_id)

\* unifi_helper/sensor.py 76-106.  agg holds the sensors handed to
\* async_add_entities.
AggSetup ==
    LET devices == SelectSeq(DeviceOrder, LAMBDA d : device_poe_map(d) # << >>)
    IN  /\ agg = None
        /\ agg' = Some([created |->
                          [i \in 1..Len(devices) |->
                             NewAggregate(device_poe_map(devices[i]))]])
        /\ ev' = Event("agg_setup", "-", None, Len(devices), FALSE, FALSE)
        /\ UNCHANGED <<now, skews, registry, names, states, store, unrounded, data,
                       sensors, buttons, pending, listeners, setups, restarts,
                       drv>>

(***************************************************************************)
(* Specification SpecScan: the startup scan of either variant, over any    *)
(* registry of the three sources.                                          *)
(***************************************************************************)
InitScan ==
    /\ InitCommon
    /\ NoAggregate
    /\ NoDriver
    /\ registry \in [Sources -> {r \in RegistryStates :
                                    r.present \/ r.disabled_by = None}]

NextScan ==
    \/ (setups = 0 /\ Setup)
    \/ AggSetup
    \/ \E a \in 1..Len(sensors) : InternalAdded(a)
    \/ \E a \in 1..Len(sensors) : AddedToHass(a)

SpecScan == InitScan /\ [][NextScan]_vars

(***************************************************************************)
(* Specification SpecIsolate: port p1 is bound by the startup scan, port   *)
(* o2 is registered or enabled later and bound by a registry event; both   *)
(* report readings.                                                        *)
(***************************************************************************)
IsolatePorts == {"p1", "o2"}
IsolateSamples == {Some("10"), Some("unavailable")}

InitIsolate ==
    /\ InitCommon
    /\ NoAggregate
    /\ NoDriver
    /\ registry \in {f \in [Sources -> RegistryStates] :
                       /\ f["p1"] = Enabled
                       /\ f["o2"] \in {Absent, [present |-> TRUE,
                                                 disabled_by |-> Some("user")]}
                       /\ f["x3"] = Absent}

NextIsolate ==
    \/ (setups = 0 /\ Setup)
    \/ \E a \in 1..Len(sensors) : InternalAdded(a)
    \/ \E a \in 1..Len(sensors) : AddedToHass(a)
    \/ \E s \in IsolatePorts, st \in IsolateSamples : StateChanged(s, st)
    \/ RegistryChange("o2", Enabled)
    \/ \E e \in RegistryEvents, s \in IsolatePorts :
          EntityRegistryUpdated(e[1], s, e[2])
    \/ Tick(1)

SpecIsolate == InitIsolate /\ [][NextIsolate]_vars

(***************************************************************************)
(* Specification SpecQuiesce: one port whose sensor is added, fed          *)
(* readings and removed, while readings, reset events and renames of the   *)
(* source keep coming.                                                     *)
(***************************************************************************)
QuiesceSamples == {Some("10"), Some("2e1")}
QuiesceNames == {None, Some(NameLamp)}

InitQuiesce ==
    /\ InitCommon
    /\ NoAggregate
    /\ NoDriver
    /\ registry = [s \in Sources |-> IF s = "p1" THEN Enabled ELSE Absent]

NextQuiesce ==
    \/ (setups = 0 /\ Setup)
    \/ \E a \in 1..Len(sensors) : InternalAdded(a)
    \/ \E a \in 1..Len(sensors) : AddedToHass(a)
    \/ \E a \in 1..Len(sensors) : InternalWillRemove(a)
    \/ \E a \in 1..Len(sensors) : WillRemove(a)
    \/ \E st \in QuiesceSamples : StateChanged("p1", st)
    \/ ResetEvent("p1")
    \/ \E v \in QuiesceNames : Rename("p1", "name", v)
    \/ Tick(1)

SpecQuiesce == InitQuiesce /\ [][NextQuiesce]_vars

(***************************************************************************)
(*                              Properties                                 *)
(***************************************************************************)
\* A state object that _async_power_changed accepts as a reading.
ValidSample(st) ==
    /\ st # None
    /\ Val(st) \notin {"unknown", "unavailable"}
    /\ ~FloatRaises(Val(st))

IsReset(e) == e.op \in {"press", "reset_event"}

\* The sensors a reset step acts on, read in the state before the step.
ResetTargets(e) ==
    IF e.op = "press" THEN {e.a} ELSE ResetListeners(e.src)

\* C1: every step leaves each sensor's total at least as large as it was,
\* except a reset (button press or reset event), after which it is exactly 0.
C1_Monotonic ==
    [][\A a \in 1..Len(sensors) :
          a <= Len(sensors') =>
            \/ sensors'[a].total_energy_kwh >= sensors[a].total_energy_kwh
            \/ /\ IsReset(ev')
               /\ sensors'[a].total_energy_kwh = 0]_vars

\* C2: a valid reading handled by a sensor that holds a previous reading taken
\* dt > 0 seconds earlier adds exactly the previous power times dt to the total
\* (in W.s, that is previous power * dt / 3,600,000 kWh).
C2_LeftEndpoint ==
    [][\A a \in 1..Len(sensors) :
          ( /\ ev'.op = "state_changed"
            /\ ValidSample(states'[ev'.src])
            /\ a \in Subscribed(ev'.src)
            /\ sensors[a].last_update_time # None
            /\ sensors[a].last_power_watts # None
            /\ now > Val(sensors[a].last_update_time) )
          => sensors'[a].total_energy_kwh
               = sensors[a].total_energy_kwh
                 + Val(sensors[a].last_power_watts)
                   * ((now - Val(sensors[a].last_update_time)) * SecondsPerTick)]_vars

\* 10 W read at t = 0 and 20 W read 3600 s later: the total is 0.010 kWh.
C2_Witness ==
    /\ ev.op = "state_changed"
    /\ states["p1"] = Some("2e1")
    /\ Len(sensors) = 1
    /\ sensors[1].last_power_watts = Some(20)
    /\ sensors[1].last_update_time = Some(2)
    /\ sensors[1].total_energy_kwh * 100 = WsPerKwh
    /\ native_value(sensors[1]) = 10

\* C3: a state-change event whose new state is absent, "unknown",
\* "unavailable" or not a number changes no sensor, writes no state and logs no
\* error; the baseline of the next valid reading is therefore still the last
\* valid one.
C3_InvalidSampleNoOp ==
    [][( /\ ev'.op = "state_changed"
         /\ ~ValidSample(states'[ev'.src]) )
       => /\ sensors' = sensors
          /\ store' = store
          /\ ~ev'.wrote
          /\ ~ev'.err]_vars

\* An "unavailable" event reached a sensor that holds a reading taken earlier.
C3_Witness ==
    /\ ev.op = "state_changed"
    /\ states["p1"] = Some("unavailable")
    /\ ev.a = 1
    /\ sensors[1].last_power_watts = Some(10)
    /\ sensors[1].last_update_time # None
    /\ now > Val(sensors[1].last_update_time)

\* C4: a reset sets the total to 0 and the last update time to now, keeps the
\* last power reading and writes the state (value 0); a reset that directly
\* follows a reset of the same sensor leaves the sensor as it is.
C4_Reset ==
    [][IsReset(ev') =>
         \A a \in ResetTargets(ev') :
            /\ sensors'[a].total_energy_kwh = 0
            /\ sensors'[a].last_update_time = Some(now)
            /\ sensors'[a].last_power_watts = sensors[a].last_power_watts
            /\ ev'.wrote
            /\ native_value(sensors'[a]) = 0
            /\ Restored(sensors[a]) => store'[sensors[a].poe] = Some(0)
            /\ (IsReset(ev) /\ a \in {ev.a}) => sensors'[a] = sensors[a]]_vars

\* A button press reset a sensor that held a reading and a non-zero total.
C4_Witness ==
    /\ ev.op = "press"
    /\ ev.st = Some("was_nonzero")
    /\ sensors[ev.a].total_energy_kwh = 0
    /\ sensors[ev.a].last_power_watts = Some(10)
    /\ sensors[ev.a].last_update_time = Some(now)

\* C5: when restore data exists for a sensor that is added, the native value
\* after async_added_to_hass equals the stored value, and that is the value
\* written.
C5_RestoreRoundTrip ==
    [][( /\ ev'.op = "added"
         /\ store[ev'.src] # None )
       => /\ native_value(sensors'[ev'.a]) = Val(store[ev'.src])
          /\ store'[ev'.src] = store[ev'.src]]_vars

\* After a restart a sensor was added and restored a non-zero total.
C5_Witness ==
    /\ ev.op = "added"
    /\ ev.st = Some("restored")
    /\ restarts = 1
    /\ native_value(sensors[ev.a]) > 0
    /\ store[ev.src] = Some(native_value(sensors[ev.a]))

\* C6: a second run of the startup scan creates no sensor for a source that
\* is in the tracked set when the scan starts, and no two sensors that are
\* not removed are bound to the same source.
C6_RescanDedup ==
    [][/\ (ev'.op = "setup" /\ setups >= 1)
          => \A a \in (Len(sensors) + 1)..Len(sensors') :
                sensors'[a].poe \notin data.tracked_poe_entities
       /\ \A a, b \in 1..Len(sensors') :
             ( /\ sensors'[a].pc # "removed"
               /\ sensors'[b].pc # "removed"
               /\ sensors'[a].poe = sensors'[b].poe ) => a = b]_vars

\* C7: after one startup scan and any registry events, no two sensors are
\* bound to the same source.
C7_SingleClaim ==
    setups = 1 =>
      \A a, b \in 1..Len(sensors) : sensors[a].poe = sensors[b].poe => a = b

\* After one scan that bound a source, a registry event bound another one.
C7_Witness ==
    /\ setups = 1
    /\ ev.op \in {"create", "update"}
    /\ Len(sensors) = 2
    /\ ev.a = 2
    /\ sensors[1].poe # sensors[2].poe

\* C8: after n >= 1 samples of constant power P spaced T apart, fed to a
\* sensor that started empty, the total is P * (n - 1) * T: each interval is
\* charged once and the last sample's power for no interval, however far the
\* clock has moved on since.
C8_Conservation ==
    (drv # None /\ Val(drv).n >= 1) =>
      /\ Len(sensors) = 1
      /\ sensors[1].total_energy_kwh
           = PyFloat(Val(drv).P)
             * ((Val(drv).n - 1) * TotalSeconds(Val(drv).T, 0))

\* Three samples of 10 W, 3600 s apart: two intervals, 0.020 kWh.
C8_Witness ==
    /\ drv # None
    /\ Val(drv).n = 3
    /\ Val(drv).T = 2
    /\ Val(drv).P = "10"
    /\ now > Val(sensors[1].last_update_time)
    /\ native_value(sensors[1]) = 20

\* C9: a press of the reset button resets its sensor while the sensor has not
\* been removed; once the sensor is removed, the press logs an error and
\* leaves the sensor as it is.
C9_DanglingReset ==
    [][ev'.op = "press" =>
         IF sensors[ev'.a].pc # "removed"
         THEN /\ sensors'[ev'.a].total_energy_kwh = 0
              /\ ~ev'.err
         ELSE /\ ev'.err
              /\ sensors'[ev'.a] = sensors[ev'.a]]_vars

\* C10: a "create" event creates a sensor only for a source that qualifies
\* and is not tracked, and then the source is tracked, the sensor is bound to
\* it, and a reset button bound to that sensor is registered.
C10_RuntimeCreate ==
    [][ev'.op = "create" =>
         /\ Qualifies(ev'.src)
         /\ ev'.src \notin data.tracked_poe_entities
         /\ Len(sensors') = Len(sensors) + 1
         /\ sensors'[ev'.a].poe = ev'.src
         /\ ev'.src \in data'.tracked_poe_entities
         /\ \E b \in 1..Len(buttons') :
               /\ buttons'[b].energy_sensor = ev'.a
               /\ buttons'[b].registered]_vars

\* What the registry listeners act on.
World == [data |-> data, sensors |-> sensors, buttons |-> buttons]

NoChanges == [disabled_by |-> None]
WasEnabled == [disabled_by |-> Some(None)]
WasDisabled == [disabled_by |-> Some(Some("user"))]

\* C11: in every reachable state with the registry listener subscribed, an
\* "update" event whose changes hold a non-empty old disabled_by has, for a
\* qualifying source that is not tracked, the effect of a "create" event: one
\* sensor bound to the source and one button bound to that sensor are
\* constructed and the source is tracked.  An "update" event without a
\* disabled_by change, or whose old disabled_by is empty (the entity was
\* enabled before), or for an entity that is disabled now, changes nothing.
C11_EnableAsCreate ==
    listeners > 0 =>
      \A s \in Sources :
        LET onEnable == Deliver(listeners, World, "update", s, WasDisabled)
            onCreate == Deliver(listeners, World, "create", s, NoChanges)
        IN  /\ (Qualifies(s) /\ s \notin data.tracked_poe_entities) =>
                 /\ onEnable = onCreate
                 /\ Len(onEnable.sensors) = Len(sensors) + 1
                 /\ onEnable.sensors[Len(sensors) + 1].poe = s
                 /\ Len(onEnable.buttons) = Len(buttons) + 1
                 /\ onEnable.buttons[Len(buttons) + 1].energy_sensor
                      = Len(sensors) + 1
                 /\ s \in onEnable.data.tracked_poe_entities
            /\ Deliver(listeners, World, "update", s, NoChanges) = World
            /\ Deliver(listeners, World, "update", s, WasEnabled) = World
            /\ (registry[s].present /\ registry[s].disabled_by # None) =>
                 onEnable = World

\* After a scan that did not bind p1, p1 was enabled and the update event
\* made the second sensor, bound to p1.
C11_Witness ==
    /\ ev.op = "update"
    /\ ev.st = Some("was_disabled")
    /\ ev.src = "p1"
    /\ Len(sensors) = 2
    /\ sensors[2].poe = "p1"
    /\ sensors[1].poe = "o2"
    /\ "p1" \in data.tracked_poe_entities
    /\ Len(buttons) >= 1
    /\ buttons[Len(buttons)].energy_sensor = 2

\* The subscriptions a sensor can hold.
Subscriptions == {"update", "reset", "registry"}

Holds(self, k) ==
    CASE k = "update" -> self.unsub_update
      [] k = "reset" -> self.unsub_reset
      [] k = "registry" -> self.unsub_registry

\* C12: no unsubscribe function is ever called twice, none has been called
\* while its handle is still held, and once removal has begun every
\* subscription the sensor made has been unsubscribed exactly once and no
\* handle is held, although both removal hooks run the cleanup; running the
\* cleanup again changes nothing, and on a sensor that holds no handle it
\* changes nothing at all.
C12_Teardown ==
    \A a \in 1..Len(sensors) :
      LET self == sensors[a]
      IN  /\ \A k \in Subscriptions :
                /\ self.unsub_calls[k] <= 1
                /\ Holds(self, k) => self.unsub_calls[k] = 0
                /\ self.pc \in {"removing", "removed"} =>
                     /\ ~Holds(self, k)
                     /\ self.unsub_calls[k] = 1
          /\ _cleanup_listeners(_cleanup_listeners(self))
               = _cleanup_listeners(self)
          /\ (\A k \in Subscriptions : ~Holds(self, k)) =>
               _cleanup_listeners(self) = self

\* A sensor that was added and sampled has gone through both removal hooks.
C12_Witness ==
    /\ ev.op = "will_remove"
    /\ sensors[ev.a].pc = "removed"
    /\ sensors[ev.a].last_power_watts # None
    /\ \A k \in Subscriptions : sensors[ev.a].unsub_calls[k] = 1

\* What one accumulation pass at current_time charges: the last power for the
\* time since the last update, if both are known and time has passed.
Charge(self, current_time) ==
    IF /\ self.last_update_time # None
       /\ self.last_power_watts # None
       /\ current_time > Val(self.last_update_time)
    THEN Val(self.last_power_watts)
           * TotalSeconds(current_time, Val(self.last_update_time))
    ELSE 0

\* C13: async_will_remove_from_hass adds to the total the last power times
\* the time elapsed since the last update, keeps the last power, and writes
\* the final value; running it a second time at the same instant leaves the
\* total that the first run produced.
C13_Finalize ==
    [][ev'.op = "will_remove" =>
         LET before == sensors[ev'.a]
             after == sensors'[ev'.a]
         IN  /\ after.total_energy_kwh
                  = before.total_energy_kwh + Charge(before, now)
             /\ after.last_power_watts = before.last_power_watts
             /\ ev'.wrote
             /\ store'[after.poe] = Some(native_value(after))
             /\ async_will_remove_from_hass(after, now).total_energy_kwh
                  = after.total_energy_kwh]_vars

\* C15: a reset event resets every added sensor whose entity id is the
\* event's entity_id, and every sensor whose entity id differs keeps its
\* total, its last power and its last update time.
C15_ResetFilter ==
    [][ev'.op = "reset_event" =>
         \A a \in 1..Len(sensors) :
            IF sensors[a].poe = ev'.src
            THEN sensors[a].pc = "added" =>
                   /\ sensors'[a].total_energy_kwh = 0
                   /\ sensors'[a].last_update_time = Some(now)
            ELSE sensors'[a] = sensors[a]]_vars

\* Both sensors had accumulated energy; a reset event for the first one
\* zeroed it and left the second one with its total.
C15_Witness ==
    /\ ev.op = "reset_event"
    /\ ev.st = Some("was_nonzero")
    /\ ev.src = "p1"
    /\ Len(sensors) = 2
    /\ sensors[ev.a].poe = "p1"
    /\ sensors[ev.a].total_energy_kwh = 0
    /\ \E b \in 1..Len(sensors) :
          /\ sensors[b].poe = "o2"
          /\ sensors[b].pc = "added"
          /\ sensors[b].total_energy_kwh > 0
          /\ sensors[b].last_update_time # Some(now)

\* C14: after async_added_to_hass the total is the stored value if one is
\* stored and it is not negative, and 0 otherwise; in either case it is not
\* negative.
C14_RestoreValid ==
    [][ev'.op = "added" =>
         LET persisted == store[ev'.src]
             after == sensors'[ev'.a]
         IN  /\ after.total_energy_kwh
                  = IF persisted # None /\ Val(persisted) >= 0
                    THEN FloatOfStored(Val(persisted))
                    ELSE 0
             /\ after.total_energy_kwh >= 0]_vars

\* C16: when a sensor is added and restores a stored value, its total is the
\* unrounded total that the stored value was written from, so the total that
\* later increments are added to has never gone through the rounding of
\* native_value.
C16_NoRoundingFeedback ==
    [][(ev'.op = "added" /\ store[ev'.src] # None) =>
         sensors'[ev'.a].total_energy_kwh = Val(unrounded[ev'.src])]_vars

\* C17: a valid reading handled at a time that is not later than the
\* sensor's last update time adds nothing to the total, and still sets the
\* last power to the reading and the last update time to now, and writes the
\* state.
C17_NotLaterSample ==
    [][\A a \in 1..Len(sensors) :
          ( /\ ev'.op = "state_changed"
            /\ ValidSample(states'[ev'.src])
            /\ a \in Subscribed(ev'.src)
            /\ sensors[a].last_update_time # None
            /\ now <= Val(sensors[a].last_update_time) )
          => /\ sensors'[a].total_energy_kwh = sensors[a].total_energy_kwh
             /\ sensors'[a].last_power_watts
                  = Some(PyFloat(Val(states'[ev'.src])))
             /\ sensors'[a].last_update_time = Some(now)
             /\ ev'.wrote
             /\ Restored(sensors[a])
                  => store'[ev'.src] = Some(native_value(sensors'[a]))]_vars

\* The clock was set back; a 20 W reading then reached a sensor whose last
\* update was later than now and which had 10 W as its last power.
C17_Witness ==
    /\ ev.op = "state_changed"
    /\ ev.st = Some("not_later")
    /\ skews = 1
    /\ states["p1"] = Some("2e1")
    /\ sensors[ev.a].last_power_watts = Some(20)
    /\ sensors[ev.a].last_update_time = Some(now)
    /\ sensors[ev.a].total_energy_kwh = 10 * SecondsPerTick
    /\ now = 0

\* C18: a poll whose time is not later than the time of the previous poll
\* leaves the total as it was.
C18_PollNotLater ==
    [][( /\ ev'.op = "poll"
         /\ Val(agg).sensor.last_update # None
         /\ now <= Val(Val(agg).sensor.last_update) )
       => Val(agg').sensor.total_energy_kwh
            = Val(agg).sensor.total_energy_kwh]_vars

\* C19: a poll with a previous poll time adds the sum of the readings of the
\* bound entities that have a valid reading, times the time since the
\* previous poll, if there is at least one such entity, and nothing if there
\* is none; either way the poll time becomes now and the state is written.
C19_PollAccumulates ==
    [][( /\ ev'.op = "poll"
         /\ Val(agg).sensor.last_update # None )
       => LET self == Val(agg).sensor
              after == Val(agg').sensor
              valid == {i \in 1..Len(self.poe_entity_ids) :
                           ValidSample(states[self.poe_entity_ids[i]])}
              watts(i) == IF i \in valid
                          THEN PyFloat(Val(states[self.poe_entity_ids[i]]))
                          ELSE 0
              sum == watts(1) + watts(2)
          IN  /\ Len(self.poe_entity_ids) = 2
              /\ after.total_energy_kwh
                   = IF valid # {}
                     THEN self.total_energy_kwh
                          + sum * ((now - Val(self.last_update)) * SecondsPerTick)
                     ELSE self.total_energy_kwh
              /\ after.last_update = Some(now)
              /\ ev'.wrote
              /\ Val(agg').last_sensor_data = Some(AggNativeValue(after))]_vars

\* One entity reports 10 W and the other is unavailable: a poll 1800 s after
\* the previous one added 10 W * 1800 s = 0.005 kWh.
C19_Witness ==
    /\ ev.op = "poll"
    /\ ev.st = Some("later")
    /\ ev.a = 1
    /\ states["p1"] = Some("10")
    /\ states["o2"] = Some("unavailable")
    /\ Val(agg).sensor.total_energy_kwh = 10 * SecondsPerTick
    /\ Val(agg).last_sensor_data = Some(5)

\* C20: an update of a sensor that has no previous poll time records now as
\* the poll time, writes the state and leaves the total as it was.
C20_FirstPoll ==
    [][( /\ ev'.op \in {"poll", "agg_added"}
         /\ ev'.wrote
         /\ Val(agg).sensor.last_update = None )
       => LET self == Val(agg).sensor
              after == Val(agg').sensor
          IN  /\ after.last_update = Some(now)
              /\ after.total_energy_kwh
                   = IF ev'.op = "agg_added" /\ Val(agg).last_sensor_data # None
                     THEN FloatOfStored(Val(Val(agg).last_sensor_data))
                     ELSE self.total_energy_kwh
              /\ Val(agg').last_sensor_data = Some(AggNativeValue(after))]_vars

\* The sensor restored 0.005 kWh and was added at 1800 s while an entity
\* reported 10 W: the first update set the baseline and added nothing.
C20_Witness ==
    /\ ev.op = "agg_added"
    /\ ev.st = Some("restored")
    /\ now = 1
    /\ states["p1"] = Some("10")
    /\ Val(agg).sensor.last_update = Some(1)
    /\ Val(agg).sensor.total_energy_kwh = 5 * (WsPerKwh \div Thousandths)

\* C21: async_added_to_hass, after restoring, reads the source's current
\* state: a valid number becomes the last power and now the last update time;
\* otherwise both are left as they were (absent on a sensor that has had no
\* sample).  The total is the restored one, untouched by this step, and the
\* state is written.
C21_InitializeSeeds ==
    [][ev'.op = "added" =>
         LET before == sensors[ev'.a]
             after == sensors'[ev'.a]
             state == states[ev'.src]
         IN  /\ ValidSample(state) =>
                  /\ after.last_power_watts = Some(PyFloat(Val(state)))
                  /\ after.last_update_time = Some(now)
             /\ ~ValidSample(state) =>
                  /\ after.last_power_watts = before.last_power_watts
                  /\ after.last_update_time = before.last_update_time
             /\ after.total_energy_kwh
                  = IF store[ev'.src] # None
                    THEN FloatOfStored(Val(store[ev'.src]))
                    ELSE before.total_energy_kwh
             /\ ev'.wrote
             /\ store'[ev'.src] = Some(native_value(after))]_vars

\* After a restart the sensor restored a non-zero total while its source was
\* unavailable: it was added with no last power and no last update time.
C21_Witness ==
    /\ ev.op = "added"
    /\ ev.st = Some("restored")
    /\ restarts = 1
    /\ states[ev.src] = Some("unavailable")
    /\ sensors[ev.a].last_power_watts = None
    /\ sensors[ev.a].last_update_time = None
    /\ sensors[ev.a].total_energy_kwh > 0

\* C22: after a reset at time r of a sensor whose last power is P, the first
\* valid reading at a time t > r leaves the total at P * (t - r): the interval
\* runs from the reset, not from the reading before it, and is charged at P.
C22_IntervalAfterReset ==
    (drv # None /\ Val(drv).phase = 3) =>
      /\ Len(sensors) = 1
      /\ sensors[1].total_energy_kwh
           = PyFloat(Val(drv).P)
             * TotalSeconds(Val(sensors[1].last_update_time), Val(drv).r)

\* 10 W read at t = 0, reset at 1800 s, next reading at 5400 s: 0.010 kWh,
\* not the 0.015 kWh since the first reading.
C22_Witness ==
    /\ drv # None
    /\ Val(drv).phase = 3
    /\ Val(drv).P = "10"
    /\ Val(drv).first = 0
    /\ Val(drv).r = 1
    /\ now = 3
    /\ sensors[1].last_update_time = Some(3)
    /\ sensors[1].total_energy_kwh = 10 * 2 * SecondsPerTick

\* C23: in every reachable state of a per-port sensor, last_update_time is
\* present only if a valid power reading has been recorded, that is only if
\* last_power_watts is present.
C23_SampleTimeNeedsReading ==
    \A a \in 1..Len(sensors) :
        sensors[a].last_update_time # None
            => sensors[a].last_power_watts # None

\* C24: a registry "update" event for a sensor's own source that changes its
\* name or original name sets the sensor's name to the one derived from the
\* source's new name (the value the changed key got; if that is empty, the
\* other name, else the object id), and writes state only if that differs
\* from the current one; a sensor bound to another source keeps its name; no
\* rename changes a total or the tracking state.
C24_RenamePropagates ==
    [][ev'.op = "rename" =>
         \A a \in 1..Len(sensors) :
            LET before == sensors[a]
                after == sensors'[a]
                key == Val(ev'.st)
                other == IF key = "name" THEN "original_name" ELSE "name"
                derived == EnergyNameFrom(
                               PowerName(Catalog[ev'.src].entity_id,
                                         [original_name |-> names'[ev'.src][key],
                                          name |-> names'[ev'.src][other]]))
            IN  /\ (before.unsub_registry /\ before.poe = ev'.src) =>
                      /\ after.name = derived
                      /\ (ev'.wrote /\ ev'.a = a) <=> before.name # derived
                /\ before.poe # ev'.src => after.name = before.name
                /\ after.total_energy_kwh = before.total_energy_kwh
                /\ after.last_power_watts = before.last_power_watts
                /\ after.last_update_time = before.last_update_time]_vars

\* The qualification predicate of the specification: upstream namespace,
\* power-sensor id, a parent device, unit watts, class power, not disabled,
\* and a name that matches the vocabulary.
IsPowerSource(s) ==
    /\ registry[s].present
    /\ Catalog[s].platform = UNIFI_DOMAIN
    /\ StartsWith(Catalog[s].entity_id, SensorDot)
    /\ Catalog[s].device_id # ""
    /\ Catalog[s].unit_of_measurement = "W"
    /\ Catalog[s].original_device_class = "power"
    /\ registry[s].disabled_by = None
    /\ NameMatchOf[s]

\* C25: a startup scan binds every source that satisfies the qualification
\* predicate to exactly one sensor (per-port variant) or puts it into
\* exactly one per-device sensor (aggregate variant); it binds no source that
\* fails the predicate, such as a disabled one; and the sources bound by the
\* per-port scan are the tracked set.
C25_ScanBinds ==
    [][/\ ev'.op = "setup" =>
            /\ \A s \in Sources :
                 Cardinality({a \in 1..Len(sensors') : sensors'[a].poe = s})
                   = IF IsPowerSource(s) THEN 1 ELSE 0
            /\ data'.tracked_poe_entities = {s \in Sources : IsPowerSource(s)}
       /\ ev'.op = "agg_setup" =>
            \A s \in Sources :
               Cardinality({i \in 1..Len(Val(agg').created) :
                              \E k \in 1..Len(Val(agg').created[i].poe_entity_ids) :
                                 Val(agg').created[i].poe_entity_ids[k] = s})
                 = IF IsPowerSource(s) THEN 1 ELSE 0]_vars

\* C26: a sensor tracks its source from async_internal_added_to_hass on and
\* restores its total in async_added_to_hass; whatever readings arrive in
\* between, the restore loses none of the energy they added: the total after
\* it is the restored total plus the total accumulated so far.
C26_RestoreKeepsSamples ==
    [][ev'.op = "added" =>
         sensors'[ev'.a].total_energy_kwh
           = sensors[ev'.a].total_energy_kwh
             + (IF store[ev'.src] # None
                THEN FloatOfStored(Val(store[ev'.src]))
                ELSE 0)]_vars

\* C27: a state-change event of source S changes total, last_power_watts
\* and last_update_time only of sensors bound to S, and a registry "create"
\* or "update" event changes the total of no existing sensor.
C27_SampleIsolation ==
    [][/\ ev'.op = "state_changed" =>
            \A a \in 1..Len(sensors) :
               sensors[a].poe # ev'.src =>
                  /\ sensors'[a].total_energy_kwh = sensors[a].total_energy_kwh
                  /\ sensors'[a].last_power_watts = sensors[a].last_power_watts
                  /\ sensors'[a].last_update_time = sensors[a].last_update_time
       /\ ev'.op \in {"create", "update"} =>
            \A a \in 1..Len(sensors) :
               sensors'[a].total_energy_kwh = sensors[a].total_energy_kwh]_vars

\* Both sensors track their sources, the one of p1 has accumulated energy,
\* and a reading of o2 has just been taken by the sensor that a registry
\* event created for o2.
C27_Witness ==
    /\ Len(sensors) = 2
    /\ sensors[1].poe = "p1"
    /\ sensors[2].poe = "o2"
    /\ sensors[1].pc = "added"
    /\ sensors[1].total_energy_kwh > 0
    /\ ev.op = "state_changed"
    /\ ev.src = "o2"
    /\ ev.wrote
    /\ sensors[2].last_update_time = Some(now)
    /\ sensors[1].last_update_time # Some(now)

\* The sources that have a sensor which has not been removed.
Bound == {sensors[a].poe : a \in {b \in 1..Len(sensors) : sensors[b].pc # "removed"}}

\* C28: in every reachable state a source is in tracked_poe_entities if and
\* only if a sensor bound to it exists.
C28_TrackedIsBound ==
    data.tracked_poe_entities = Bound

\* C29: once a sensor has been torn down (finalized and its listeners
\* cleaned up), no later state-change event of its source, reset event or
\* rename of its source changes its total, its last power and update time, or
\* its name.
C29_Quiescent ==
    [][ev'.op \in {"state_changed", "reset_event", "rename"} =>
         \A a \in 1..Len(sensors) :
            sensors[a].pc = "removed" => sensors'[a] = sensors[a]]_vars

\* A reset event for the sensor's entity id was fired after the sensor had
\* been torn down with a non-zero total.
C29_Witness ==
    /\ Len(sensors) = 1
    /\ sensors[1].pc = "removed"
    /\ sensors[1].total_energy_kwh > 0
    /\ sensors[1].last_power_watts # None
    /\ ev.op = "reset_event"
    /\ ev.src = "p1"

\* The reset buttons registered with the host for sensor a.
Controllers(a) ==
    {b \in 1..Len(buttons) : buttons[b].registered /\ buttons[b].energy_sensor = a}

\* C30: whatever the order of sensor setup, deferred button setup, runtime
\* create and enable events and a reload, no sensor ever has more than one
\* registered reset button.
C30_OneController ==
    \A a \in 1..Len(sensors) : Cardinality(Controllers(a)) <= 1

=============================================================================
